---- MODULE Spec2Model ----
(***************************************************************************)
(* A model of the bwnodejs data service: the sqlFunctions repository       *)
(* (src/sql.js, second class definition, lines 95-210), the MySQL tables   *)
(* its statements act on, the promise wrapper `query` over the mysql2      *)
(* pool, and the express router of src/unnamed/part_000.                   *)
(*                                                                         *)
(* Strings are sequences of one-character strings, so that LIKE patterns   *)
(* and ORDER BY can be computed character by character.  Dates are day     *)
(* numbers.                                                                *)
(***************************************************************************)
EXTENDS Integers, Sequences, FiniteSets, TLC

VARIABLES
    users,        \* table `users`, rows in store (primary key) order
    statistics,   \* table `statistics`, rows in store (primary key) order
    nextUserId,   \* AUTO_INCREMENT counter of users.id
    nextStatId,   \* AUTO_INCREMENT counter of statistics.id
    last,         \* the repository call just settled: method, input, tables before, settlement
    ops,          \* per query() call: place in the pool, store report, promise
    waiting,      \* the pool's queue of callers waiting for a connection
    resp          \* the last HTTP exchange: request, route, status, repository calls made

vars == <<users, statistics, nextUserId, nextStatId, last, ops, waiting, resp>>

storeVars == <<users, statistics, nextUserId, nextStatId>>

(***************************************************************************)
(* Bounds of the model.                                                    *)
(***************************************************************************)
MaxUserId == 2      \* accounts ever created in a run
MaxStatId == 2      \* activity records ever created in a run of Spec
MaxKills == 2       \* largest kills value of one activity record
MaxThreshold == 4   \* thresholds range over 0..MaxThreshold
MaxRows == 3        \* activity records ever created in a run of SpecStats
MaxDate == 3        \* dates are 1..MaxDate
MaxLimit == 3       \* limit and offset range over 0..MaxLimit
NumOps == 11        \* query() calls outstanding in a run of SpecPool
NumCalls == 5       \* query() calls outstanding in a run of SpecQuery

\* connectionLimit of the pool the constructor creates.
connectionLimit == 10

(***************************************************************************)
(* Strings, LIKE and ORDER BY as MySQL computes them.                      *)
(***************************************************************************)
PCT == "%"
USC == "_"

\* Code point of a character (the order ORDER BY uses under a binary or
\* general collation for these characters).
CharCode(c) ==
    CASE c = "%" -> 37
      [] c = "P" -> 80
      [] c = "_" -> 95
      [] c = "a" -> 97
      [] c = "b" -> 98
      [] OTHER -> 127

RECURSIVE StrLess(_, _)
StrLess(s, t) ==
    IF t = <<>> THEN FALSE
    ELSE IF s = <<>> THEN TRUE
    ELSE IF CharCode(Head(s)) # CharCode(Head(t))
         THEN CharCode(Head(s)) < CharCode(Head(t))
         ELSE StrLess(Tail(s), Tail(t))

\* expr LIKE pat: % matches any run of characters, _ matches exactly one.
RECURSIVE LikeMatch(_, _)
LikeMatch(pat, s) ==
    IF pat = <<>> THEN s = <<>>
    ELSE IF Head(pat) = PCT
         THEN LikeMatch(Tail(pat), s) \/ (s # <<>> /\ LikeMatch(pat, Tail(s)))
    ELSE IF Head(pat) = USC
         THEN s # <<>> /\ LikeMatch(Tail(pat), Tail(s))
    ELSE s # <<>> /\ Head(s) = Head(pat) /\ LikeMatch(Tail(pat), Tail(s))

\* The template literal `%${x}%`.
Wrap(x) == <<PCT>> \o x \o <<PCT>>

\* Insert a row into a sequence already ordered by username, after its equals.
RECURSIVE InsertByUsername(_, _)
InsertByUsername(row, sorted) ==
    IF sorted = <<>> THEN <<row>>
    ELSE IF StrLess(row.username, Head(sorted).username)
         THEN <<row>> \o sorted
         ELSE <<Head(sorted)>> \o InsertByUsername(row, Tail(sorted))

\* ORDER BY username ASC.
RECURSIVE OrderByUsername(_)
OrderByUsername(rows) ==
    IF rows = <<>> THEN <<>>
    ELSE InsertByUsername(rows[Len(rows)], OrderByUsername(SubSeq(rows, 1, Len(rows) - 1)))

\* SUM(kills) over the rows of one user_id group.
RECURSIVE SumKills(_, _)
SumKills(rows, uid) ==
    IF rows = <<>> THEN 0
    ELSE (IF Head(rows).user_id = uid THEN Head(rows).kills ELSE 0)
         + SumKills(Tail(rows), uid)

GroupHavingSumAtMost(rows, k) ==
    {uid \in {rows[i].user_id : i \in 1..Len(rows)} : SumKills(rows, uid) <= k}

\* SELECT user_id FROM statistics GROUP BY user_id HAVING SUM(kills) < ?
GroupHavingSumLess(rows, k) ==
    {uid \in {rows[i].user_id : i \in 1..Len(rows)} : SumKills(rows, uid) < k}

Min(a, b) == IF a < b THEN a ELSE b
Max(a, b) == IF a > b THEN a ELSE b

LimitOffsetFromOff(rows, lim, off) == SubSeq(rows, Max(1, off), Min(Len(rows), off + lim))

\* LIMIT lim OFFSET off over rows in store order.
LimitOffset(rows, lim, off) == SubSeq(rows, off + 1, Min(Len(rows), off + lim))

BetweenHalfOpen(d, lo, hi) == d >= lo /\ d < hi

\* date BETWEEN lo AND hi
Between(d, lo, hi) == d >= lo /\ d <= hi

OkPacket(n) == [affectedRows |-> n]

(***************************************************************************)
(* The repository: each method builds one statement and its arguments.     *)
(***************************************************************************)
createUserNamesSwapped(data) ==
    [method |-> "createUser",
     sql |-> "INSERT INTO users (username, password, first_name, last_name) VALUES (?, ?, ?, ?)",
     args |-> <<data.username, data.password, data.last_name, data.first_name>>]

createUser(data) ==
    [method |-> "createUser",
     sql |-> "INSERT INTO users (username, password, first_name, last_name) VALUES (?, ?, ?, ?)",
     args |-> <<data.username, data.password, data.first_name, data.last_name>>]

updateUser(id, data) ==
    [method |-> "updateUser",
     sql |-> "UPDATE users SET username = ?, password = ?, first_name = ?, last_name = ? WHERE id = ?",
     args |-> <<data.username, data.password, data.first_name, data.last_name, id>>]

deleteUser(id) ==
    [method |-> "deleteUser",
     sql |-> "DELETE FROM users WHERE id = ?",
     args |-> <<id>>]

getAllUsers ==
    [method |-> "getAllUsers",
     sql |-> "SELECT * FROM users ORDER BY username ASC",
     args |-> <<>>]

createStatistic(data) ==
    [method |-> "createStatistic",
     sql |-> "INSERT INTO statistics (user_id, kills, date) VALUES (?, ?, ?)",
     args |-> <<data.user_id, data.kills, data.date>>]

updateStatistic(id, data) ==
    [method |-> "updateStatistic",
     sql |-> "UPDATE statistics SET user_id = ?, kills = ?, date = ? WHERE id = ?",
     args |-> <<data.user_id, data.kills, data.date, id>>]

deleteStatistic(id) ==
    [method |-> "deleteStatistic",
     sql |-> "DELETE FROM statistics WHERE id = ?",
     args |-> <<id>>]

getAllStatistics ==
    [method |-> "getAllStatistics",
     sql |-> "SELECT * FROM statistics",
     args |-> <<>>]

getStatisticsWithLimitOffset(limit, offset) ==
    [method |-> "getStatisticsWithLimitOffset",
     sql |-> "SELECT * FROM statistics LIMIT ? OFFSET ?",
     args |-> <<limit, offset>>]

searchStatisticsByDate(date) ==
    [method |-> "searchStatisticsByDate",
     sql |-> "SELECT * FROM statistics WHERE date = ?",
     args |-> <<date>>]

searchStatisticsByDateRange(startDate, endDate) ==
    [method |-> "searchStatisticsByDateRange",
     sql |-> "SELECT * FROM statistics WHERE date BETWEEN ? AND ?",
     args |-> <<startDate, endDate>>]

searchUserByUsername(username) ==
    [method |-> "searchUserByUsername",
     sql |-> "SELECT * FROM users WHERE username LIKE ? ORDER BY username ASC",
     args |-> <<Wrap(username)>>]

searchUserByDetails(username, first_name, last_name) ==
    [method |-> "searchUserByDetails",
     sql |-> "SELECT * FROM users WHERE username LIKE ? AND first_name LIKE ? AND last_name LIKE ? ORDER BY username ASC",
     args |-> <<Wrap(username), Wrap(first_name), Wrap(last_name)>>]

deleteUsersWithLessThanKills(kills) ==
    [method |-> "deleteUsersWithLessThanKills",
     sql |-> "DELETE FROM users WHERE id IN (SELECT user_id FROM statistics GROUP BY user_id HAVING SUM(kills) < ?)",
     args |-> <<kills>>]

(***************************************************************************)
(* The store: what MySQL does with each statement of the repository.       *)
(* db is [users, statistics, nextUserId, nextStatId]; the result is the    *)
(* new db and the `rows` value handed to the callback (the selected rows,  *)
(* or an OkPacket for a write).                                            *)
(***************************************************************************)
DB == [users |-> users, statistics |-> statistics,
       nextUserId |-> nextUserId, nextStatId |-> nextStatId]

\* The id the store assigns to a new row: the table's next unused number.
NewUserId(db) == db.nextUserId
NewStatId(db) == db.nextStatId

InsertIntoUsers(db, a) ==
    [db |-> [db EXCEPT !.users = Append(@, [id |-> NewUserId(db), username |-> a[1],
                                            password |-> a[2], first_name |-> a[3],
                                            last_name |-> a[4]]),
                       !.nextUserId = @ + 1],
     rows |-> OkPacket(1)]

UpdateUsersById(db, a) ==
    LET Hit(r) == r.id = a[5]
        Set(r) == IF Hit(r)
                  THEN [r EXCEPT !.username = a[1], !.password = a[2],
                                 !.first_name = a[3], !.last_name = a[4]]
                  ELSE r
    IN [db |-> [db EXCEPT !.users = [i \in 1..Len(@) |-> Set(@[i])]],
        rows |-> OkPacket(Len(SelectSeq(db.users, Hit)))]

DeleteFromUsersNoWhere(db, a) ==
    [db |-> [db EXCEPT !.users = <<>>], rows |-> OkPacket(Len(db.users))]

DeleteFromUsersById(db, a) ==
    LET Hit(r) == r.id = a[1]
        Keep(r) == ~Hit(r)
    IN [db |-> [db EXCEPT !.users = SelectSeq(@, Keep)],
        rows |-> OkPacket(Len(SelectSeq(db.users, Hit)))]

SelectUsersOrdered(db, a) ==
    [db |-> db, rows |-> OrderByUsername(db.users)]

InsertIntoStatistics(db, a) ==
    [db |-> [db EXCEPT !.statistics = Append(@, [id |-> NewStatId(db), user_id |-> a[1],
                                                 kills |-> a[2], date |-> a[3]]),
                       !.nextStatId = @ + 1],
     rows |-> OkPacket(1)]

UpdateStatisticsById(db, a) ==
    LET Hit(r) == r.id = a[4]
        Set(r) == IF Hit(r)
                  THEN [r EXCEPT !.user_id = a[1], !.kills = a[2], !.date = a[3]]
                  ELSE r
    IN [db |-> [db EXCEPT !.statistics = [i \in 1..Len(@) |-> Set(@[i])]],
        rows |-> OkPacket(Len(SelectSeq(db.statistics, Hit)))]

DeleteFromStatisticsById(db, a) ==
    LET Hit(r) == r.id = a[1]
        Keep(r) == ~Hit(r)
    IN [db |-> [db EXCEPT !.statistics = SelectSeq(@, Keep)],
        rows |-> OkPacket(Len(SelectSeq(db.statistics, Hit)))]

SelectStatistics(db, a) ==
    [db |-> db, rows |-> db.statistics]

SelectStatisticsLimitOffset(db, a) ==
    [db |-> db, rows |-> LimitOffset(db.statistics, a[1], a[2])]

SelectStatisticsByDate(db, a) ==
    LET Hit(r) == r.date = a[1]
    IN [db |-> db, rows |-> SelectSeq(db.statistics, Hit)]

SelectStatisticsBetween(db, a) ==
    LET Hit(r) == Between(r.date, a[1], a[2])
    IN [db |-> db, rows |-> SelectSeq(db.statistics, Hit)]

SelectUsersLikeUsername(db, a) ==
    LET Hit(r) == LikeMatch(a[1], r.username)
    IN [db |-> db, rows |-> OrderByUsername(SelectSeq(db.users, Hit))]

SelectUsersLikeDetails(db, a) ==
    LET Hit(r) == /\ LikeMatch(a[1], r.username)
                  /\ LikeMatch(a[2], r.first_name)
                  /\ LikeMatch(a[3], r.last_name)
    IN [db |-> db, rows |-> OrderByUsername(SelectSeq(db.users, Hit))]

DeleteFromUsersHavingSumLessCascade(db, a) ==
    LET doomed == GroupHavingSumLess(db.statistics, a[1])
        Hit(r) == r.id \in doomed
        Keep(r) == ~Hit(r)
        KeepStat(r) == r.user_id \notin {db.users[i].id : i \in {j \in 1..Len(db.users) : Hit(db.users[j])}}
    IN [db |-> [db EXCEPT !.users = SelectSeq(@, Keep),
                          !.statistics = SelectSeq(@, KeepStat)],
        rows |-> OkPacket(Len(SelectSeq(db.users, Hit)))]

DeleteFromUsersHavingSumLess(db, a) ==
    LET doomed == GroupHavingSumLess(db.statistics, a[1])
        Hit(r) == r.id \in doomed
        Keep(r) == ~Hit(r)
    IN [db |-> [db EXCEPT !.users = SelectSeq(@, Keep)],
        rows |-> OkPacket(Len(SelectSeq(db.users, Hit)))]

\* The store executing one statement with its bound arguments.
Execute(db, sql, a) ==
    CASE sql = createUser([username |-> <<>>, password |-> <<>>, first_name |-> <<>>, last_name |-> <<>>]).sql
            -> InsertIntoUsers(db, a)
      [] sql = "UPDATE users SET username = ?, password = ?, first_name = ?, last_name = ? WHERE id = ?"
            -> UpdateUsersById(db, a)
      [] sql = "DELETE FROM users WHERE id = ?"
            -> DeleteFromUsersById(db, a)
      [] sql = "SELECT * FROM users ORDER BY username ASC"
            -> SelectUsersOrdered(db, a)
      [] sql = "INSERT INTO statistics (user_id, kills, date) VALUES (?, ?, ?)"
            -> InsertIntoStatistics(db, a)
      [] sql = "UPDATE statistics SET user_id = ?, kills = ?, date = ? WHERE id = ?"
            -> UpdateStatisticsById(db, a)
      [] sql = "DELETE FROM statistics WHERE id = ?"
            -> DeleteFromStatisticsById(db, a)
      [] sql = "SELECT * FROM statistics"
            -> SelectStatistics(db, a)
      [] sql = "SELECT * FROM statistics LIMIT ? OFFSET ?"
            -> SelectStatisticsLimitOffset(db, a)
      [] sql = "SELECT * FROM statistics WHERE date = ?"
            -> SelectStatisticsByDate(db, a)
      [] sql = "SELECT * FROM statistics WHERE date BETWEEN ? AND ?"
            -> SelectStatisticsBetween(db, a)
      [] sql = "SELECT * FROM users WHERE username LIKE ? ORDER BY username ASC"
            -> SelectUsersLikeUsername(db, a)
      [] sql = "SELECT * FROM users WHERE username LIKE ? AND first_name LIKE ? AND last_name LIKE ? ORDER BY username ASC"
            -> SelectUsersLikeDetails(db, a)
      [] sql = "DELETE FROM users WHERE id IN (SELECT user_id FROM statistics GROUP BY user_id HAVING SUM(kills) < ?)"
            -> DeleteFromUsersHavingSumLess(db, a)

(***************************************************************************)
(* query(sql, args): the promise around pool.query.                        *)
(***************************************************************************)
NoErr == "null"
StoreErrs == {NoErr, "ER_STORE"}

CallbackSwallowsError(err, rows) ==
    IF err # NoErr
    THEN [state |-> "pending", value |-> <<>>]
    ELSE [state |-> "resolved", value |-> rows]

CallbackWrapsError(err, rows) ==
    IF err # NoErr
    THEN [state |-> "rejected", value |-> "Error: query failed"]
    ELSE [state |-> "resolved", value |-> rows]

\* The callback (err, rows) => { if (err) return reject(err); resolve(rows); }
Callback(err, rows) ==
    IF err # NoErr
    THEN [state |-> "rejected", value |-> err]
    ELSE [state |-> "resolved", value |-> rows]

\* One query() run to completion: the store executes the statement (or fails
\* and changes nothing), then the callback settles the promise.
query(db, sql, a, err) ==
    IF err # NoErr
    THEN [db |-> db, settled |-> Callback(err, <<>>)]
    ELSE LET r == Execute(db, sql, a)
         IN [db |-> r.db, settled |-> Callback(NoErr, r.rows)]

(***************************************************************************)
(* Repository calls as actions.                                            *)
(***************************************************************************)
NoCall ==
    [method |-> "none", input |-> <<>>, prevUsers |-> <<>>, prevStats |-> <<>>,
     err |-> NoErr, state |-> "none", value |-> <<>>]

\* No request handled yet.
NoResp ==
    [req |-> [method |-> "none", path |-> <<>>, ip |-> "", kills |-> <<>>],
     route |-> 0, status |-> "none", methods |-> <<>>, statements |-> <<>>]

\* A repository method called with `input`, having built call c, completing
\* with store outcome err.  Calls are made one at a time here: the caller has
\* taken the previous settlement (several outstanding calls are the subject
\* of SpecPool).
Invoke(c, input, err) ==
    LET r == query(DB, c.sql, c.args, err)
    IN /\ last = NoCall
       /\ users' = r.db.users
       /\ statistics' = r.db.statistics
       /\ nextUserId' = r.db.nextUserId
       /\ nextStatId' = r.db.nextStatId
       /\ last' = [method |-> c.method, input |-> input,
                   prevUsers |-> users, prevStats |-> statistics,
                   err |-> err, state |-> r.settled.state, value |-> r.settled.value]
       /\ UNCHANGED <<ops, waiting, resp>>

CreateUser(D) ==
    \E d \in D, err \in StoreErrs :
        nextUserId <= MaxUserId /\ Invoke(createUser(d), <<d>>, err)

UpdateUser(D) ==
    \E id \in 1..MaxUserId, d \in D, err \in StoreErrs :
        Invoke(updateUser(id, d), <<id, d>>, err)

DeleteUser ==
    \E id \in 1..MaxUserId, err \in StoreErrs :
        Invoke(deleteUser(id), <<id>>, err)

GetAllUsers ==
    \E err \in StoreErrs : Invoke(getAllUsers, <<>>, err)

CreateStatistic(D, cap) ==
    \E d \in D, err \in StoreErrs :
        nextStatId <= cap /\ Invoke(createStatistic(d), <<d>>, err)

UpdateStatistic(D, cap) ==
    \E id \in 1..cap, d \in D, err \in StoreErrs :
        Invoke(updateStatistic(id, d), <<id, d>>, err)

DeleteStatistic(cap) ==
    \E id \in 1..cap, err \in StoreErrs :
        Invoke(deleteStatistic(id), <<id>>, err)

GetAllStatistics ==
    \E err \in StoreErrs : Invoke(getAllStatistics, <<>>, err)

GetStatisticsWithLimitOffset ==
    \E limit \in 0..MaxLimit, offset \in 0..MaxLimit, err \in StoreErrs :
        Invoke(getStatisticsWithLimitOffset(limit, offset), <<limit, offset>>, err)

SearchStatisticsByDate ==
    \E d \in 1..MaxDate, err \in StoreErrs :
        Invoke(searchStatisticsByDate(d), <<d>>, err)

SearchStatisticsByDateRange ==
    \E s \in 1..MaxDate, e \in 1..MaxDate, err \in StoreErrs :
        Invoke(searchStatisticsByDateRange(s, e), <<s, e>>, err)

SearchUserByUsername(F) ==
    \E u \in F, err \in StoreErrs :
        Invoke(searchUserByUsername(u), <<u>>, err)

SearchUserByDetails(F) ==
    \E u \in F, f \in F, l \in F, err \in StoreErrs :
        Invoke(searchUserByDetails(u, f, l), <<u, f, l>>, err)

DeleteUsersWithLessThanKills ==
    \E t \in 0..MaxThreshold, err \in StoreErrs :
        Invoke(deleteUsersWithLessThanKills(t), <<t>>, err)

\* await: the caller takes the settlement of its call.
Return ==
    /\ last # NoCall
    /\ last' = NoCall
    /\ UNCHANGED <<storeVars, ops, waiting, resp>>

InitStore ==
    /\ users = <<>>
    /\ statistics = <<>>
    /\ nextUserId = 1
    /\ nextStatId = 1

Init ==
    /\ InitStore
    /\ last = NoCall
    /\ ops = <<>>
    /\ waiting = <<>>
    /\ resp = NoResp

(***************************************************************************)
(* Spec: accounts and their activity records (account removal, aggregate   *)
(* delete).  Names and dates play no part here and take one value.         *)
(***************************************************************************)
PlainUser ==
    [username |-> <<"a">>, password |-> <<"P">>, first_name |-> <<"a">>, last_name |-> <<"b">>]
KillsData == [user_id : 1..MaxUserId, kills : 0..MaxKills, date : {1}]

Next ==
    \/ CreateUser({PlainUser})
    \/ DeleteUser
    \/ CreateStatistic(KillsData, MaxStatId)
    \/ DeleteStatistic(MaxStatId)
    \/ DeleteUsersWithLessThanKills
    \/ Return

Spec == Init /\ [][Next]_vars

(***************************************************************************)
(* SpecStats: the activity repository alone (listing, pagination, date     *)
(* searches).                                                              *)
(***************************************************************************)
DateData == [user_id : {1}, kills : {1}, date : 1..MaxDate]

NextStats ==
    \/ CreateStatistic(DateData, MaxRows)
    \/ UpdateStatistic(DateData, MaxRows)
    \/ DeleteStatistic(MaxRows)
    \/ GetAllStatistics
    \/ GetStatisticsWithLimitOffset
    \/ SearchStatisticsByDate
    \/ SearchStatisticsByDateRange
    \/ Return

SpecStats == Init /\ [][NextStats]_vars

(***************************************************************************)
(* SpecUsers: the account repository alone (creation, listing, searches).  *)
(***************************************************************************)
Usernames == {<<"b">>, <<"a", "b">>, <<"a">>}
GivenNames == {<<"a">>, <<"b">>}
FamilyNames == {<<"b">>}
UserData ==
    [username : Usernames, password : {<<"P">>}, first_name : GivenNames, last_name : FamilyNames]
Fragments == {<<>>, <<"a">>, <<"b">>, <<"_">>}

NextUsers ==
    \/ CreateUser(UserData)
    \/ UpdateUser(UserData)
    \/ DeleteUser
    \/ GetAllUsers
    \/ SearchUserByUsername(Fragments)
    \/ SearchUserByDetails(Fragments)
    \/ Return

SpecUsers == Init /\ [][NextUsers]_vars

(***************************************************************************)
(* The express application of src/unnamed/part_000: routes in the order    *)
(* they are registered, the middleware of the bulk-delete route, and the   *)
(* handlers of the DELETE routes.  A request is [method, path, ip, kills]: *)
(* path is the sequence of its segments, kills the text of the query       *)
(* parameter `kills` (<<>> when absent).                                   *)
(***************************************************************************)
Routes ==
    << [method |-> "POST",   path |-> <<"users">>,                     handler |-> "createUser"],
       [method |-> "PUT",    path |-> <<"users", ":id">>,              handler |-> "updateUser"],
       [method |-> "DELETE", path |-> <<"users", ":id">>,              handler |-> "deleteUser"],
       [method |-> "GET",    path |-> <<"users">>,                     handler |-> "getAllUsers"],
       [method |-> "GET",    path |-> <<"users", "search">>,           handler |-> "searchUserByUsername"],
       [method |-> "GET",    path |-> <<"users", "searchByDetails">>,  handler |-> "searchUserByDetails"],
       [method |-> "DELETE", path |-> <<"users", "deleteByKills">>,    handler |-> "deleteUsersWithLessThanKills"],
       [method |-> "POST",   path |-> <<"statistics">>,                handler |-> "createStatistic"],
       [method |-> "PUT",    path |-> <<"statistics", ":id">>,         handler |-> "updateStatistic"],
       [method |-> "DELETE", path |-> <<"statistics", ":id">>,         handler |-> "deleteStatistic"],
       [method |-> "GET",    path |-> <<"statistics">>,                handler |-> "getAllStatistics"],
       [method |-> "GET",    path |-> <<"statistics", "paginate">>,    handler |-> "getStatisticsWithLimitOffset"],
       [method |-> "GET",    path |-> <<"statistics", "search">>,      handler |-> "searchStatisticsByDateRange"],
       [method |-> "GET",    path |-> <<"statistics", "searchByDate">>, handler |-> "searchStatisticsByDate"] >>

\* A route pattern matches a path segment by segment; :id matches any segment.
PathMatches(pattern, path) ==
    /\ Len(pattern) = Len(path)
    /\ \A i \in 1..Len(pattern) : pattern[i] = ":id" \/ pattern[i] = path[i]

RouteMatches(route, req) ==
    route.method = req.method /\ PathMatches(route.path, req.path)

\* The router runs the first registered route that matches; 0 when none does.
\* Every handler here ends the response, so no later route runs.
FirstMatch(req) ==
    LET hits == {i \in 1..Len(Routes) : RouteMatches(Routes[i], req)}
    IN IF hits = {} THEN 0 ELSE CHOOSE i \in hits : \A j \in hits : i <= j

Localhost == {"127.0.0.1", "::1"}

\* checkLocalhost: next() for a local address, else 403.
checkLocalhost(req) == IF req.ip \in Localhost THEN "next" ELSE "403"

Digits == {"0", "1", "2", "3", "4", "5", "6", "7", "8", "9"}

DigitValue(c) ==
    CASE c = "0" -> 0 [] c = "1" -> 1 [] c = "2" -> 2 [] c = "3" -> 3 [] c = "4" -> 4
      [] c = "5" -> 5 [] c = "6" -> 6 [] c = "7" -> 7 [] c = "8" -> 8 [] c = "9" -> 9

\* validateKills: query('kills').isInt({ min: 0 }) on an unsigned text.
validateKills(req) ==
    /\ req.kills # <<>>
    /\ \A i \in 1..Len(req.kills) : req.kills[i] \in Digits
    /\ Len(req.kills) > 1 => req.kills[1] # "0"

\* parseInt on a run of decimal digits.
RECURSIVE parseInt(_)
parseInt(s) ==
    IF s = <<>> THEN 0
    ELSE 10 * parseInt(SubSeq(s, 1, Len(s) - 1)) + DigitValue(s[Len(s)])

\* The number MySQL compares an INT column with when the bound argument is
\* the text of a path segment: its leading digits, 0 when it has none.
MySqlNumber(seg) ==
    CASE seg = "1" -> 1
      [] seg = "2" -> 2
      [] OTHER -> 0

\* What the matched route does with the request: the response status and the
\* repository calls it makes (at most one), in order.
Dispatch(req) ==
    LET i == FirstMatch(req)
        h == IF i = 0 THEN "none" ELSE Routes[i].handler
    IN CASE h = "deleteUser" ->
                [route |-> i, status |-> "await", calls |-> <<deleteUser(MySqlNumber(req.path[2]))>>]
         [] h = "deleteStatistic" ->
                [route |-> i, status |-> "await", calls |-> <<deleteStatistic(MySqlNumber(req.path[2]))>>]
         [] h = "deleteUsersWithLessThanKills" ->
                IF checkLocalhost(req) # "next"
                THEN [route |-> i, status |-> "403", calls |-> <<>>]
                ELSE IF ~validateKills(req)
                THEN [route |-> i, status |-> "400", calls |-> <<>>]
                ELSE [route |-> i, status |-> "await",
                      calls |-> <<deleteUsersWithLessThanKills(parseInt(req.kills))>>]
         [] OTHER -> [route |-> i, status |-> "404", calls |-> <<>>]

HttpPaths ==
    {<<"users", "deleteByKills">>, <<"users", "1">>, <<"statistics", "1">>, <<"users">>}
HttpRequests ==
    [method : {"DELETE"}, path : HttpPaths, ip : {"127.0.0.1", "::1", "10.0.0.7"},
     kills : {<<>>, <<"2">>, <<"x">>}]

\* One request handled to its response: try { await db.<method>(...);
\* res.send(...) } catch (err) { res.status(500).send(err.message) }.
HandleRequest ==
    \E req \in HttpRequests, err \in StoreErrs :
        LET d == Dispatch(req)
        IN IF d.calls = <<>>
           THEN /\ resp' = [req |-> req, route |-> d.route, status |-> d.status,
                            methods |-> <<>>, statements |-> <<>>]
                /\ UNCHANGED <<storeVars, last, ops, waiting>>
           ELSE LET c == d.calls[1]
                    r == query(DB, c.sql, c.args, err)
                IN /\ users' = r.db.users
                   /\ statistics' = r.db.statistics
                   /\ nextUserId' = r.db.nextUserId
                   /\ nextStatId' = r.db.nextStatId
                   /\ resp' = [req |-> req, route |-> d.route,
                               status |-> IF r.settled.state = "resolved" THEN "200" ELSE "500",
                               methods |-> <<c.method>>, statements |-> <<c.sql>>]
                   /\ UNCHANGED <<last, ops, waiting>>

\* The store as earlier requests left it: two accounts and two activity records.
HttpSeedStats ==
    {[i \in 1..2 |-> [id |-> i, user_id |-> u[i], kills |-> k[i], date |-> 1]] :
        u \in [1..2 -> 1..2], k \in [1..2 -> 0..1]}

InitHttp ==
    /\ users = <<[id |-> 1] @@ PlainUser, [id |-> 2] @@ PlainUser>>
    /\ statistics \in HttpSeedStats
    /\ nextUserId = 3
    /\ nextStatId = 3
    /\ last = NoCall
    /\ ops = <<>>
    /\ waiting = <<>>
    /\ resp = NoResp

NextHttp == HandleRequest

SpecHttp == InitHttp /\ [][NextHttp]_vars

\* C3: every DELETE /users/deleteByKills that does not come from localhost
\* is answered 403 and executes no statement; one from localhost with a valid
\* kills value is dispatched to deleteUsersWithLessThanKills and to no other
\* repository operation.
C3_BulkDeleteLocalhostOnly ==
    (resp.req.method = "DELETE" /\ resp.req.path = <<"users", "deleteByKills">>) =>
        IF resp.req.ip \notin Localhost
        THEN resp.status = "403" /\ resp.statements = <<>>
        ELSE validateKills(resp.req) =>
                resp.methods = <<"deleteUsersWithLessThanKills">>

(***************************************************************************)
(* query() over the connection pool, with several calls outstanding.       *)
(* Each call i has: calls (times it handed its statement to pool.query),   *)
(* conn (its place in the pool: "none", "queued", "held", "released"),     *)
(* waited (it was queued), executed (times the store started its           *)
(* statement), report (what the store reported), promise (the promise      *)
(* query() returned) and settles (times the promise left pending).         *)
(* Callers are interchangeable, so they call in the order of their         *)
(* numbers.                                                                *)
(***************************************************************************)
Pending == [state |-> "pending", value |-> <<>>]

FreshOp ==
    [calls |-> 0, conn |-> "none", waited |-> FALSE, executed |-> 0,
     report |-> [done |-> FALSE, err |-> NoErr, rows |-> <<>>],
     promise |-> Pending, settles |-> 0]

Held == {i \in DOMAIN ops : ops[i].conn = "held"}

\* The rows the store hands back for the statement of call i.
RowsFor(i) == <<i>>

\* A promise takes the first settlement only.
SettlePromise(p, s) == IF p.state = "pending" THEN s ELSE p

\* The pool, asked for a connection while `held` are checked out: one is
\* handed out below the limit, else the caller joins the queue.
PoolAcquire(held) == IF held < connectionLimit THEN "held" ELSE "queued"

\* The pool, given back a connection: the caller at the head of the queue
\* takes it over, if there is one.
PoolRelease(o, queue) ==
    IF queue = <<>>
    THEN [ops |-> o, waiting |-> queue]
    ELSE [ops |-> [o EXCEPT ![Head(queue)].conn = "held", ![Head(queue)].executed = @ + 1],
          waiting |-> Tail(queue)]

\* What a run keeps of a finished call: everything (exact), or only that it
\* settled.
Keep(o, exact) ==
    IF exact THEN o
    ELSE [o EXCEPT !.report = [done |-> TRUE, err |-> NoErr, rows |-> <<>>],
                   !.promise = IF @.state = "pending" THEN @
                               ELSE [state |-> "settled", value |-> <<>>]]

\* new Promise(...) { this.pool.query(sql, args, cb) }: the statement goes to
\* the pool, which runs it on a free connection or queues the caller.
IssueQuery(i) ==
    /\ ops[i].calls = 0
    /\ \A j \in DOMAIN ops : j < i => ops[j].calls > 0
    /\ IF PoolAcquire(Cardinality(Held)) = "held"
       THEN /\ ops' = [ops EXCEPT ![i].calls = 1, ![i].conn = "held", ![i].executed = @ + 1]
            /\ UNCHANGED waiting
       ELSE /\ ops' = [ops EXCEPT ![i].calls = 1, ![i].conn = "queued", ![i].waited = TRUE]
            /\ waiting' = Append(waiting, i)
    /\ UNCHANGED <<storeVars, last, resp>>

\* The store reports on the statement of call i: the pool takes the
\* connection back and the callback settles the promise.
StoreReturns(i, exact) ==
    \E err \in StoreErrs :
        /\ ops[i].conn = "held"
        /\ LET rows == IF err = NoErr THEN RowsFor(i) ELSE <<>>
               after == SettlePromise(ops[i].promise, Callback(err, rows))
               done == [ops[i] EXCEPT !.conn = "released",
                                      !.report = [done |-> TRUE, err |-> err, rows |-> rows],
                                      !.promise = after,
                                      !.settles = IF after # ops[i].promise THEN @ + 1 ELSE @]
               freed == PoolRelease([ops EXCEPT ![i] = Keep(done, exact)], waiting)
           IN ops' = freed.ops /\ waiting' = freed.waiting
        /\ UNCHANGED <<storeVars, last, resp>>

InitCalls(n) ==
    /\ InitStore
    /\ last = NoCall
    /\ resp = NoResp
    /\ ops = [i \in 1..n |-> FreshOp]
    /\ waiting = <<>>

(***************************************************************************)
(* SpecPool: more calls than connections; of a finished call only the fact *)
(* that it settled is kept.  Every statement that is executing eventually  *)
(* returns from the store.                                                 *)
(***************************************************************************)
OpIds == 1..NumOps

InitPool == InitCalls(NumOps)

NextPool ==
    \/ \E i \in OpIds : IssueQuery(i)
    \/ \E i \in OpIds : StoreReturns(i, FALSE)

SpecPool ==
    InitPool /\ [][NextPool]_vars /\ \A i \in OpIds : WF_vars(StoreReturns(i, FALSE))

(***************************************************************************)
(* SpecQuery: a few calls, each kept with the store's report and the       *)
(* promise's settlement.                                                   *)
(***************************************************************************)
CallIds == 1..NumCalls

InitQuery == InitCalls(NumCalls)

NextQuery ==
    \/ \E i \in CallIds : IssueQuery(i)
    \/ \E i \in CallIds : StoreReturns(i, TRUE)

SpecQuery == InitQuery /\ [][NextQuery]_vars

Settled(i) == ops[i].promise.state # "pending"

\* C4: with a pool of capacity 10 and more calls than that outstanding, at
\* most 10 connections are checked out at any moment, the excess callers wait
\* in the queue (and wait only while all 10 connections are in use, so one
\* will be released), and every call that was issued eventually settles: from
\* any moment on, a moment comes at which all calls issued so far have settled.
C4_PoolBoundedAndLive ==
    /\ [](Cardinality(Held) <= 10)
    /\ [](\A i \in OpIds : ops[i].conn = "queued" <=> \E k \in 1..Len(waiting) : waiting[k] = i)
    /\ [](waiting # <<>> => Cardinality(Held) = 10)
    /\ []<>(\A i \in OpIds : ops[i].calls > 0 => Settled(i))

\* All calls have settled, one of them after waiting in the queue.
C4_Witness ==
    /\ \A i \in OpIds : Settled(i)
    /\ \E i \in OpIds : ops[i].waited

\* C5: every query() hands one statement to the store and settles once: it
\* resolves with the store's rows when the store reports success and rejects
\* with the store's own error when it reports one; the statement is never run
\* a second time and the promise never changes after it has settled.
C5_OneStatementOneSettlement ==
    \A i \in CallIds :
        /\ ops[i].calls <= 1 /\ ops[i].executed <= 1 /\ ops[i].settles <= 1
        /\ ops[i].report.done <=> Settled(i)
        /\ Settled(i) =>
              /\ ops[i].calls = 1 /\ ops[i].executed = 1 /\ ops[i].settles = 1
              /\ ops[i].report.err # NoErr =>
                    ops[i].promise = [state |-> "rejected", value |-> ops[i].report.err]
              /\ ops[i].report.err = NoErr =>
                    ops[i].promise = [state |-> "resolved", value |-> ops[i].report.rows]

\* One call has resolved with its rows and another has rejected with the error.
C5_Witness ==
    /\ \E i \in CallIds : ops[i].promise = [state |-> "resolved", value |-> RowsFor(i)]
    /\ \E i \in CallIds : ops[i].promise = [state |-> "rejected", value |-> "ER_STORE"]

(***************************************************************************)
(* Properties of the repository over the store.                            *)
(***************************************************************************)
Ids(rows) == {rows[i].id : i \in 1..Len(rows)}

\* The rows getAllUsers / getAllStatistics return in the current state.
ListUsersNow == query(DB, getAllUsers.sql, getAllUsers.args, NoErr).settled.value
ListStatisticsNow == query(DB, getAllStatistics.sql, getAllStatistics.args, NoErr).settled.value

Resolved(m) == last.method = m /\ last.state = "resolved"

\* Records of account uid among rows, and the total of their kills.
RecordsOf(rows, uid) == {i \in 1..Len(rows) : rows[i].user_id = uid}

RECURSIVE TotalOver(_, _)
TotalOver(rows, idx) ==
    IF idx = {} THEN 0
    ELSE LET i == CHOOSE j \in idx : TRUE
         IN rows[i].kills + TotalOver(rows, idx \ {i})

BelowThreshold(rows, uid, t) ==
    RecordsOf(rows, uid) # {} /\ TotalOver(rows, RecordsOf(rows, uid)) < t

\* C1: deleteUsersWithLessThanKills(t) deletes exactly the accounts that have
\* at least one activity record and whose summed kills is strictly less than
\* t; accounts with no record, or with a sum >= t, are still present.
C1_AggregateDeleteExact ==
    Resolved("deleteUsersWithLessThanKills") =>
        LET t == last.input[1]
            Stays(r) == ~BelowThreshold(last.prevStats, r.id, t)
        IN users = SelectSeq(last.prevUsers, Stays)

\* An account with two records summing below t was deleted while an account
\* with no record stayed.
C1_Witness ==
    /\ Resolved("deleteUsersWithLessThanKills")
    /\ \E r \in {last.prevUsers[i] : i \in 1..Len(last.prevUsers)} :
          /\ Cardinality(RecordsOf(last.prevStats, r.id)) = 2
          /\ TotalOver(last.prevStats, RecordsOf(last.prevStats, r.id)) > 0
          /\ r.id \notin Ids(users)
    /\ \E r \in {last.prevUsers[i] : i \in 1..Len(last.prevUsers)} :
          /\ RecordsOf(last.prevStats, r.id) = {}
          /\ r.id \in Ids(users)

RemovedIds == Ids(last.prevUsers) \ Ids(users)

\* C2 as stated: after deleteUsersWithLessThanKills(t) removes an account, no
\* activity record references an account id that the operation removed.
C2_RecordsOfRemovedAccountsGone ==
    Resolved("deleteUsersWithLessThanKills") =>
        \A i \in 1..Len(statistics) : statistics[i].user_id \notin RemovedIds

\* C2 as amended: deleteUsersWithLessThanKills(t) deletes rows of users only;
\* the statistics table is left exactly as it was, so the activity records of
\* every removed account are still present.
C2_StatisticsUntouched ==
    Resolved("deleteUsersWithLessThanKills") =>
        /\ statistics = last.prevStats
        /\ \A uid \in RemovedIds : RecordsOf(statistics, uid) # {}

C2_Witness ==
    /\ Resolved("deleteUsersWithLessThanKills")
    /\ \E uid \in RemovedIds : RecordsOf(statistics, uid) # {}

\* C6: deleteUser(id) and deleteStatistic(id) on an id that matches no row
\* (including one removed earlier) leave both tables unchanged and, the store
\* having executed the statement, resolve with zero affected rows.
C6_RemoveIsIdempotent ==
    /\ (last.method = "deleteUser" /\ last.input[1] \notin Ids(last.prevUsers)) =>
          /\ users = last.prevUsers /\ statistics = last.prevStats
          /\ last.err = NoErr =>
                last.state = "resolved" /\ last.value = OkPacket(0)
    /\ (last.method = "deleteStatistic" /\ last.input[1] \notin Ids(last.prevStats)) =>
          /\ users = last.prevUsers /\ statistics = last.prevStats
          /\ last.err = NoErr =>
                last.state = "resolved" /\ last.value = OkPacket(0)

\* deleteUser on an id that was assigned and removed earlier, other rows being
\* present in both tables.
C6_Witness ==
    /\ Resolved("deleteUser")
    /\ last.input[1] < nextUserId
    /\ last.input[1] \notin Ids(last.prevUsers)
    /\ users # <<>> /\ statistics # <<>>

SameFields(row, d) ==
    /\ row.username = d.username /\ row.password = d.password
    /\ row.first_name = d.first_name /\ row.last_name = d.last_name

\* C7: after a successful createUser(d), getAllUsers returns exactly one record
\* with a newly assigned id, carrying the supplied fields; that id differs from
\* every other account's id, and every account present before is returned
\* unchanged.
C7_CreateThenListAll ==
    Resolved("createUser") =>
        LET d == last.input[1]
            all == ListUsersNow
            new == {i \in 1..Len(all) : all[i].id \notin Ids(last.prevUsers)}
        IN /\ Cardinality(new) = 1
           /\ \A i \in new : SameFields(all[i], d)
           /\ \A i, j \in 1..Len(all) : all[i].id = all[j].id => i = j
           /\ Len(all) = Len(last.prevUsers) + 1
           /\ \A k \in 1..Len(last.prevUsers) :
                 \E i \in 1..Len(all) : all[i] = last.prevUsers[k]

\* A create of fields that an account already present carries as well.
C7_Witness ==
    /\ Resolved("createUser")
    /\ last.input[1].first_name # last.input[1].last_name
    /\ \E k \in 1..Len(last.prevUsers) : SameFields(last.prevUsers[k], last.input[1])
    /\ Len(users) = 2

\* frag occurs in s as a contiguous run of characters.
Contains(s, frag) ==
    \E i \in 0..(Len(s) - Len(frag)) : SubSeq(s, i + 1, i + Len(frag)) = frag

Sorted(rows) ==
    \A i \in 1..(Len(rows) - 1) : ~StrLess(rows[i + 1].username, rows[i].username)

\* C8: searchUserByDetails(u, f, l) returns exactly the accounts whose
\* username contains u, first_name contains f and last_name contains l as
\* literal substrings (all three), ordered by username ascending.
C8_ConjunctiveLiteralSubstrings ==
    Resolved("searchUserByDetails") =>
        LET u == last.input[1]
            f == last.input[2]
            l == last.input[3]
            Match(r) == /\ Contains(r.username, u)
                        /\ Contains(r.first_name, f)
                        /\ Contains(r.last_name, l)
        IN /\ {last.value[i] : i \in 1..Len(last.value)}
                 = {users[i] : i \in {j \in 1..Len(users) : Match(users[j])}}
           /\ Len(last.value) = Cardinality({j \in 1..Len(users) : Match(users[j])})
           /\ Sorted(last.value)

\* C9: for s <= e, searchStatisticsByDateRange(s, e) returns exactly the
\* records dated d with s <= d <= e, both ends included; for s = e these are
\* the records searchStatisticsByDate(s) returns.
C9_RangeInclusive ==
    (Resolved("searchStatisticsByDateRange") /\ last.input[1] <= last.input[2]) =>
        LET s == last.input[1]
            e == last.input[2]
            InRange(r) == s <= r.date /\ r.date <= e
            byDate == query(DB, searchStatisticsByDate(s).sql,
                            searchStatisticsByDate(s).args, NoErr).settled.value
        IN /\ last.value = SelectSeq(statistics, InRange)
           /\ s = e => last.value = byDate

\* A range s < e over records dated exactly s, exactly e and outside the range.
C9_Witness ==
    /\ Resolved("searchStatisticsByDateRange")
    /\ last.input[1] < last.input[2]
    /\ \E i, j, k \in 1..Len(statistics) :
          /\ statistics[i].date = last.input[1]
          /\ statistics[j].date = last.input[2]
          /\ ~Between(statistics[k].date, last.input[1], last.input[2])
    /\ Len(last.value) = 2

\* C10: with n records, getStatisticsWithLimitOffset(limit, offset) returns
\* min(limit, max(0, n - offset)) rows, the rows at positions offset+1 ..
\* offset+limit of what getAllStatistics returns in the same state.
C10_PageOfListAll ==
    Resolved("getStatisticsWithLimitOffset") =>
        LET limit == last.input[1]
            offset == last.input[2]
            all == ListStatisticsNow
        IN /\ Len(last.value) = Min(limit, Max(0, Len(all) - offset))
           /\ \A k \in 1..Len(last.value) : last.value[k] = all[offset + k]

\* A page of one row taken from the middle of three.
C10_Witness ==
    /\ Resolved("getStatisticsWithLimitOffset")
    /\ last.input = <<1, 1>>
    /\ Len(statistics) = 3
    /\ last.value = <<statistics[2]>>

====
